---------------------------- MODULE Spec2Model ----------------------------
(***************************************************************************)
(* A model of pflow/data/text_mel_datamodule.py: the manifest parser       *)
(* (parse_filelist), the dataset split (TextMelDataset: construction with  *)
(* its seeded shuffle, indexed access with the short-audio retry) and the  *)
(* batch collator (TextMelBatchCollate).                                   *)
(*                                                                         *)
(* Two state machines share the module.  Spec / FairSpec run the dataset   *)
(* split: construct it from a manifest, then serve indexed accesses.       *)
(* CollateSpec runs the collator on bounded lists of samples.              *)
(***************************************************************************)
EXTENDS Integers, Sequences, FiniteSets

VARIABLES
    manifest,            \* the lines of the manifest file, as read by "for line in f"
    n_spks,              \* hparams.n_spks (dataset and collator)
    filepaths_and_text,  \* TextMelDataset.filepaths_and_text
    pc,                  \* position of the dataset client: init/idle/getitem/returned/failed
    requested,           \* the index the caller passed to __getitem__
    index,               \* the index of the innermost (current) __getitem__ frame
    retried,             \* TRUE once the current access has taken the retry branch
    result,              \* the datapoint returned by the access, or None
    error,               \* the exception the access raised, or None
    hop_length,          \* hparams.hop_length
    get_codes,           \* TextMelBatchCollate.get_codes
    batch,               \* the list of samples handed to the collator
    cpc,                 \* position of the collator client: ready/done/raised
    out,                 \* the dictionary the collator returned, or None
    cerror,              \* the exception the collator raised, or None
    encodec_calls        \* number of invocations of the codec

datavars == <<manifest, filepaths_and_text, pc, requested, index, retried, result, error>>
collvars == <<hop_length, get_codes, batch, cpc, out, cerror, encodec_calls>>
vars == <<manifest, n_spks, filepaths_and_text, pc, requested, index, retried, result,
          error, hop_length, get_codes, batch, cpc, out, cerror, encodec_calls>>

None == "None"

(***************************************************************************)
(* Bounds of the model.                                                    *)
(***************************************************************************)
MaxLines == 2

(***************************************************************************)
(* Strings are sequences of one-character strings.                         *)
(***************************************************************************)
NL == "\n"

\* str.strip() with no argument removes leading and trailing whitespace.
IsSpace(c) == c \in {" ", NL, "\t"}

RECURSIVE lstrip(_)
lstrip(s) == IF s # <<>> /\ IsSpace(Head(s)) THEN lstrip(Tail(s)) ELSE s

RECURSIVE rstrip(_)
rstrip(s) ==
    IF s # <<>> /\ IsSpace(s[Len(s)]) THEN rstrip(SubSeq(s, 1, Len(s) - 1)) ELSE s

strip(s) == rstrip(lstrip(s))

\* str.split(sep): the fields between the separators; always at least one field.
RECURSIVE split(_, _)
split(s, sep) ==
    IF \E i \in 1..Len(s) : s[i] = sep
    THEN LET i == CHOOSE k \in 1..Len(s) :
                      s[k] = sep /\ \A m \in 1..(k - 1) : s[m] # sep
         IN  <<SubSeq(s, 1, i - 1)>> \o split(SubSeq(s, i + 1, Len(s)), sep)
    ELSE <<s>>

\* parse_filelist: one record per line of the file.
parse_filelist(lines) == [i \in 1..Len(lines) |-> split(strip(lines[i]), "|")]

(***************************************************************************)
(* The manifests of the model: up to MaxLines lines drawn from these.      *)
(* A path is one character naming an audio file (see ta_load).             *)
(***************************************************************************)
ManifestLines ==
    { <<"L", "|", "t", NL>>,            \* long audio, configured rate
      <<"S", "|", "t", NL>>,            \* short audio, configured rate
      <<"M", "|", "t", NL>>,            \* long audio, other rate
      <<"N", "|", "t", NL>>,            \* short audio, other rate
      <<"L", "|", "1", "|", "t", NL>>,  \* a three-field (multi-speaker) line
      <<NL>>,                           \* an empty line
      <<" ", NL>> }                     \* a whitespace-only line

RECURSIVE SeqsUpTo(_, _)
SeqsUpTo(S, n) ==
    IF n = 0 THEN {<<>>}
    ELSE LET shorter == SeqsUpTo(S, n - 1)
         IN  shorter \cup {Append(q, e) : q \in {r \in shorter : Len(r) = n - 1}, e \in S}

Manifests == SeqsUpTo(ManifestLines, MaxLines)


(***************************************************************************)
(* TextMelDataset.  Python indexes from 0; the model indexes from 1, so    *)
(* record k of the code is filepaths_and_text[k + 1] here.                 *)
(***************************************************************************)
SampleRate == 22050
MinWavLen == 66150

\* random.shuffle(x): for i from the last position down to the second, draw j
\* in the positions up to i and exchange x[i] and x[j].  draws[i] is the j drawn
\* for position i; the seed decides the draws.
ShuffleDraws(n) == {d \in [2..n -> 1..n] : \A i \in 2..n : d[i] <= i}

swap(x, i, j) == [x EXCEPT ![i] = x[j], ![j] = x[i]]

RECURSIVE shuffle_from(_, _, _)
shuffle_from(x, i, draws) ==
    IF i < 2 THEN x ELSE shuffle_from(swap(x, i, draws[i]), i - 1, draws)

RECURSIVE shuffle_lossy_from(_, _, _)
shuffle_lossy_from(x, i, draws) ==
    IF i < 2 THEN x
    ELSE shuffle_lossy_from([x EXCEPT ![i] = x[draws[i]]], i - 1, draws)

\* A shuffle that overwrites instead of exchanging.
shuffle_lossy(x, draws) == shuffle_lossy_from(x, Len(x), draws)

shuffle(x, draws) == shuffle_from(x, Len(x), draws)

\* random.randint(a, b): the values a draw can give, both ends included.
randint_short(a, b) == a..(b - 1)

randint(a, b) == a..b

\* ta.load(filepath): the audio files of the model, by path.  Tensors are
\* represented here by their source and their last dimension.
AudioFiles ==
    [ L |-> [len |-> 66150, sr |-> 22050],
      S |-> [len |-> 66149, sr |-> 22050],
      M |-> [len |-> 66150, sr |-> 44100],
      N |-> [len |-> 50000, sr |-> 44100] ]

ta_load(filepath) ==
    IF Len(filepath) = 1 /\ filepath[1] \in DOMAIN AudioFiles
    THEN [raised |-> None, file |-> filepath[1],
          len |-> AudioFiles[filepath[1]].len, sr |-> AudioFiles[filepath[1]].sr]
    ELSE [raised |-> "RuntimeError"]

\* get_mel without the assertion on the sample rate.
get_mel_unchecked(filepath) ==
    LET a == ta_load(filepath)
    IN  IF a.raised # None THEN [raised |-> a.raised]
        ELSE [raised |-> None,
              mel |-> [mel_of |-> a.file],
              audio |-> [file |-> a.file, len |-> a.len]]

\* get_mel: load, assert the sample rate, compute the normalised mel.
get_mel(filepath) ==
    LET a == ta_load(filepath)
    IN  IF a.raised # None THEN [raised |-> a.raised]
        ELSE IF a.sr # SampleRate THEN [raised |-> "AssertionError"]
        ELSE [raised |-> None,
              mel |-> [mel_of |-> a.file],
              audio |-> [file |-> a.file, len |-> a.len]]

\* int(s) of a field: defined on the decimal digit strings.
Digits == <<"0", "1", "2", "3", "4", "5", "6", "7", "8", "9">>

IsInt(s) == s # <<>> /\ \A k \in 1..Len(s) : \E d \in 1..10 : Digits[d] = s[k]

RECURSIVE int(_)
int(s) ==
    IF s = <<>> THEN 0
    ELSE 10 * int(SubSeq(s, 1, Len(s) - 1))
         + (CHOOSE d \in 0..9 : Digits[d + 1] = s[Len(s)])

\* get_text: the symbol tensor of a text (cleaners and symbol table are
\* external); kept as the text it encodes.
get_text(text) == [symbols_of |-> text]

\* get_datapoint: the fields are read left to right, then the text is
\* encoded, then the audio is loaded.
get_datapoint(filepath_and_text) ==
    LET rec == filepath_and_text
        multi == n_spks > 1
        spk == IF multi THEN int(rec[2]) ELSE None
        text == IF multi THEN rec[3] ELSE rec[2]
        m == get_mel(rec[1])
    IN  IF Len(rec) < 2 THEN [raised |-> "IndexError"]
        ELSE IF multi /\ ~IsInt(rec[2]) THEN [raised |-> "ValueError"]
        ELSE IF multi /\ Len(rec) < 3 THEN [raised |-> "IndexError"]
        ELSE IF m.raised # None THEN [raised |-> m.raised]
        ELSE [raised |-> None,
              datapoint |-> [x |-> get_text(text), y |-> m.mel,
                             spk |-> spk, wav |-> m.audio]]

\* The test "datapoint['wav'].shape[-1] < 66150" replaced by one that never skips.
too_short_never(datapoint) == FALSE

\* The test "datapoint['wav'].shape[-1] < 66150".
too_short(datapoint) == datapoint.wav.len < MinWavLen

\* __len__
len_split == Len(filepaths_and_text)

Init ==
    /\ manifest \in Manifests
    /\ n_spks \in {1, 2}
    /\ filepaths_and_text = <<>>
    /\ pc = "init"
    /\ requested = 0
    /\ index = 0
    /\ retried = FALSE
    /\ result = None
    /\ error = None
    /\ hop_length = 256
    /\ get_codes = TRUE
    /\ batch = <<>>
    /\ cpc = "off"
    /\ out = None
    /\ cerror = None
    /\ encodec_calls = 0

\* TextMelDataset.__init__: parse the manifest, then shuffle the records.
Setup ==
    /\ pc = "init"
    /\ \E draws \in ShuffleDraws(Len(parse_filelist(manifest))) :
           filepaths_and_text' = shuffle(parse_filelist(manifest), draws)
    /\ pc' = "idle"
    /\ UNCHANGED <<manifest, n_spks, requested, index, retried, result, error>>
    /\ UNCHANGED collvars

\* A caller (the data loader) asks for the sample at a valid index.
GetItemCall(i) ==
    /\ pc \in {"idle", "returned", "failed"}
    /\ i \in 1..len_split
    /\ pc' = "getitem"
    /\ requested' = i
    /\ index' = i
    /\ retried' = FALSE
    /\ result' = None
    /\ error' = None
    /\ UNCHANGED <<manifest, n_spks, filepaths_and_text>>
    /\ UNCHANGED collvars

\* __getitem__(index): get_datapoint raises; the exception leaves every frame.
GetItemRaise ==
    /\ pc = "getitem"
    /\ LET r == get_datapoint(filepaths_and_text[index])
       IN  /\ r.raised # None
           /\ error' = r.raised
    /\ pc' = "failed"
    /\ UNCHANGED <<manifest, n_spks, filepaths_and_text, requested, index, retried, result>>
    /\ UNCHANGED collvars

\* __getitem__(index): the datapoint is too short; call __getitem__ on a drawn index.
GetItemRetry(j) ==
    /\ pc = "getitem"
    /\ LET r == get_datapoint(filepaths_and_text[index])
       IN  /\ r.raised = None
           /\ too_short(r.datapoint)
    /\ j \in randint(1, len_split)
    /\ index' = j
    /\ retried' = TRUE
    /\ UNCHANGED <<manifest, n_spks, filepaths_and_text, pc, requested, result, error>>
    /\ UNCHANGED collvars

\* __getitem__(index): the datapoint is long enough and is returned through every frame.
GetItemReturn ==
    /\ pc = "getitem"
    /\ LET r == get_datapoint(filepaths_and_text[index])
       IN  /\ r.raised = None
           /\ ~too_short(r.datapoint)
           /\ result' = r.datapoint
    /\ pc' = "returned"
    /\ UNCHANGED <<manifest, n_spks, filepaths_and_text, requested, index, retried, error>>
    /\ UNCHANGED collvars

Next ==
    \/ Setup
    \/ \E i \in 1..MaxLines : GetItemCall(i)
    \/ GetItemRaise
    \/ \E j \in 1..MaxLines : GetItemRetry(j)
    \/ GetItemReturn

Spec == Init /\ [][Next]_vars

\* The retry's draws are fair: an index that can be drawn again and again is drawn,
\* and a frame that can proceed does.
FairSpec ==
    /\ Init
    /\ [][Next]_vars
    /\ WF_vars(GetItemRaise \/ GetItemReturn)
    /\ \A j \in 1..MaxLines : SF_vars(GetItemRetry(j))

(***************************************************************************)
(* Properties of the dataset split.                                        *)
(***************************************************************************)
Count(q, e) == Cardinality({k \in 1..Len(q) : q[k] = e})

IsPermutation(a, b) ==
    /\ Len(a) = Len(b)
    /\ \A k \in 1..Len(a) : Count(a, a[k]) = Count(b, a[k])

\* get_datapoint reaches ta.load on this record and the file loads.
Loads(rec) ==
    /\ Len(rec) >= 2
    /\ n_spks > 1 => IsInt(rec[2]) /\ Len(rec) >= 3
    /\ ta_load(rec[1]).raised = None

\* The record names an audio file with at least MinWavLen samples.
HasLongAudio(rec) == ta_load(rec[1]).raised = None /\ ta_load(rec[1]).len >= MinWavLen

SplitHasLong == \E k \in 1..len_split : HasLongAudio(filepaths_and_text[k])

SplitAllClean ==
    \A k \in 1..len_split : get_datapoint(filepaths_and_text[k]).raised = None

InGetItem == pc = "getitem"

\* C2: a returned sample is built from a record of the split, its waveform has
\* at least 66150 samples, and when the requested record is short the sample
\* comes from another record of the split.
C2_NoShortSample ==
    pc = "returned" =>
        /\ index \in 1..len_split
        /\ result = get_datapoint(filepaths_and_text[index]).datapoint
        /\ result.wav.len >= MinWavLen
        /\ LET r == get_datapoint(filepaths_and_text[requested])
           IN  (r.raised = None /\ r.datapoint.wav.len < MinWavLen)
                   => index # requested /\ retried

C2_Witness ==
    /\ pc = "returned"
    /\ retried
    /\ index # requested
    /\ get_datapoint(filepaths_and_text[requested]).datapoint.wav.len < MinWavLen

NonEmptyLine(line) == strip(line) # <<>>

\* C7: the split holds exactly one record per non-empty line of the manifest;
\* an empty or whitespace-only line contributes no record.
C7_OneRecordPerNonEmptyLine ==
    pc # "init" =>
        /\ len_split = Cardinality({k \in 1..Len(manifest) : NonEmptyLine(manifest[k])})
        /\ IsPermutation(filepaths_and_text,
                         parse_filelist(SelectSeq(manifest, NonEmptyLine)))

\* Every record has the fields get_datapoint reads for this n_spks.
SplitWellFormed ==
    \A k \in 1..len_split :
        LET rec == filepaths_and_text[k]
        IN  Len(rec) >= 2 /\ (n_spks > 1 => IsInt(rec[2]) /\ Len(rec) >= 3)

SrMismatch(rec) == Loads(rec) /\ ta_load(rec[1]).sr # SampleRate

\* C9: when the access reads a record whose audio has another sample rate,
\* requested or drawn by the retry, short or not, its one possible step is to
\* fail with the assertion's error: no sample, no retry, no other record.
C9_MismatchIsFatal ==
    [][ (InGetItem /\ SrMismatch(filepaths_and_text[index]))
            => /\ pc' = "failed"
               /\ error' = "AssertionError"
               /\ result' = None
               /\ index' = index ]_vars

C9_Witness ==
    /\ pc = "failed"
    /\ error = "AssertionError"
    /\ retried
    /\ SrMismatch(filepaths_and_text[index])
    /\ ta_load(filepaths_and_text[index][1]).len < MinWavLen

\* C10: once the split is constructed its records are a permutation of the
\* parsed records, its length is their number, and no step changes them.
C10_PermutationKept ==
    /\ [](pc # "init" =>
            /\ IsPermutation(filepaths_and_text, parse_filelist(manifest))
            /\ len_split = Len(parse_filelist(manifest)))
    /\ [][pc # "init" => filepaths_and_text' = filepaths_and_text]_vars

C10_Witness ==
    /\ pc = "returned"
    /\ retried
    /\ filepaths_and_text # parse_filelist(manifest)
    /\ IsPermutation(filepaths_and_text, parse_filelist(manifest))

(***************************************************************************)
(* TextMelBatchCollate.  A sample is [x, y, spk, wav]: x the symbol        *)
(* sequence, y the mel as n_feats rows of frames, wav the one channel of   *)
(* audio.  The collator is run on the lists of up to MaxBatch samples      *)
(* below.                                                                  *)
(***************************************************************************)
MaxBatch == 2
MaxMelLen == 5
NFeats == 2

HopLengths == {256, 512}

\* Sample values: they depend on the position, and 0 is among them.
MelValue(ml, f, t) == ((ml + f + t) % 3) - 1
WavValue(wl, k) == ((wl + k) % 3) - 1

\* The audio of a sample of ml mel frames: ml hops and the start of one more.
WavLen(ml, hop) == ml * hop + 1

\* A sample of ml mel frames, as a split configured with (hop, spks) builds it.
Sample(ml, hop, spks) ==
    [ x   |-> [k \in 1..(1 + (ml % 2)) |-> k],
      y   |-> [f \in 1..NFeats |-> [t \in 1..ml |-> MelValue(ml, f, t)]],
      spk |-> IF spks > 1 THEN ml % 2 ELSE None,
      wav |-> [k \in 1..WavLen(ml, hop) |-> WavValue(WavLen(ml, hop), k)] ]

Samples(hop, spks) == {Sample(ml, hop, spks) : ml \in 1..MaxMelLen}

Batches(hop, spks) == UNION {[1..n -> Samples(hop, spks)] : n \in 1..MaxBatch}

\* max([...]) of a non-empty list of lengths.
max(lens) == CHOOSE m \in {lens[k] : k \in 1..Len(lens)} : \A k \in 1..Len(lens) : lens[k] <= m

\* fix_len_compatibility (pflow.utils.model): round up to a multiple of the factor.
CompatFactor == 4

fix_len_compatibility(length) == ((length + CompatFactor - 1) \div CompatFactor) * CompatFactor

\* The padded mel length without the rounding.
y_max_length_raw(items) == max([i \in 1..Len(items) |-> Len(items[i].y[1])])

\* y_max_length: the largest mel length of the batch, made compatible.
y_max_length(items) ==
    fix_len_compatibility(max([i \in 1..Len(items) |-> Len(items[i].y[1])]))

\* wav_max_length = y_max_length * 256
CollateHop == 256

wav_max_length(items) == y_max_length(items) * CollateHop

x_max_length(items) == max([i \in 1..Len(items) |-> Len(items[i].x)])

\* A row allocated with ones instead of zeros.
pad_row_ones(row, n) == [k \in 1..n |-> IF k <= Len(row) THEN row[k] ELSE 1]

\* A row of torch.zeros of length n with row copied into its first Len(row) places.
pad_row(row, n) == [k \in 1..n |-> IF k <= Len(row) THEN row[k] ELSE 0]

\* A slice that keeps the last n samples.
curtail_tail(wav, n) == IF Len(wav) > n THEN SubSeq(wav, Len(wav) - n + 1, Len(wav)) ELSE wav

\* item["wav"][:, :wav_max_length] if longer than wav_max_length, else item["wav"]
curtail(wav, n) == IF Len(wav) > n THEN SubSeq(wav, 1, n) ELSE wav

\* batched_encodec: the codec is external; its result is kept as the codes of
\* a waveform batch of this shape, after squeeze and transpose.
batched_encodec(wav) == [codes_of_shape |-> <<Len(wav), 1, Len(wav[1])>>]

\* The body of __call__ up to the return statement.
collate(items) ==
    LET B == Len(items)
        Ty == y_max_length(items)
        Tw == wav_max_length(items)
        Tx == x_max_length(items)
        n_feats == Len(items[1].y)
        wav_(i) == curtail(items[i].wav, Tw)
        wav == [i \in 1..B |-> pad_row(wav_(i), Tw)]
        wav_lengths == [i \in 1..B |-> Len(wav_(i))]
        y == [i \in 1..B |-> [f \in 1..n_feats |-> pad_row(items[i].y[f], Ty)]]
        y_lengths == [i \in 1..B |-> Len(items[i].y[1])]
        codes == batched_encodec(wav)
        codes_lengths == [i \in 1..B |-> 1 + (wav_lengths[i] \div 320)]
    IN  [ x |-> [i \in 1..B |-> pad_row(items[i].x, Tx)],
          x_lengths |-> [i \in 1..B |-> Len(items[i].x)],
          y |-> y,
          y_lengths |-> y_lengths,
          spks |-> IF n_spks > 1 THEN [i \in 1..B |-> items[i].spk] ELSE None,
          wav |-> wav,
          wav_lengths |-> wav_lengths,
          codes |-> codes,
          codes_lengths |-> codes_lengths,
          prompt_spec |-> y,
          prompt_lengths |-> y_lengths,
          prompt_codes |-> codes,
          prompt_codes_lengths |-> codes_lengths ]

CollateInit ==
    /\ manifest = <<>>
    /\ filepaths_and_text = <<>>
    /\ pc = "off"
    /\ requested = 0
    /\ index = 0
    /\ retried = FALSE
    /\ result = None
    /\ error = None
    /\ n_spks \in {1, 2}
    /\ hop_length \in HopLengths
    /\ get_codes \in BOOLEAN
    /\ batch \in Batches(hop_length, n_spks)
    /\ cpc = "ready"
    /\ out = None
    /\ cerror = None
    /\ encodec_calls = 0

\* __call__ with get_codes set: the codec runs and the dictionary is returned.
Collate ==
    /\ cpc = "ready"
    /\ get_codes
    /\ out' = collate(batch)
    /\ encodec_calls' = encodec_calls + 1
    /\ cpc' = "done"
    /\ UNCHANGED <<hop_length, get_codes, batch, cerror, n_spks>>
    /\ UNCHANGED datavars

\* __call__ with get_codes unset: "codes" is never assigned, and reading it for
\* the returned dictionary raises.
CollateRaise ==
    /\ cpc = "ready"
    /\ ~get_codes
    /\ cerror' = "UnboundLocalError"
    /\ cpc' = "raised"
    /\ UNCHANGED <<hop_length, get_codes, batch, out, encodec_calls, n_spks>>
    /\ UNCHANGED datavars

CollateNext == Collate \/ CollateRaise

CollateSpec == CollateInit /\ [][CollateNext]_vars

(***************************************************************************)
(* Properties of the collator.                                             *)
(***************************************************************************)
Collated == cpc = "done"

B == Len(batch)
Ty_max == Len(out.y[1][1])
Tw_max == Len(out.wav[1])
MelLen(i) == Len(batch[i].y[1])
MaxMel == CHOOSE m \in {MelLen(i) : i \in 1..B} : \A i \in 1..B : MelLen(i) <= m
Min(a, b) == IF a <= b THEN a ELSE b

\* C1: the last dimension of the padded waveform tensor is the last dimension
\* of the padded mel tensor times the configured hop_length.
C1_WavDimIsMelDimTimesHop ==
    Collated => \A i \in 1..B : Len(out.wav[i]) = Len(out.y[i][1]) * hop_length

\* C3: with code extraction disabled the collation completes, the codec is
\* not invoked, and the code fields and their prompt_ aliases are absent.
C3_NoCodesWhenDisabled ==
    (cpc # "ready" /\ ~get_codes) =>
        /\ Collated
        /\ encodec_calls = 0
        /\ out.codes = None
        /\ out.codes_lengths = None
        /\ out.prompt_codes = None
        /\ out.prompt_codes_lengths = None

\* C4: mel_lengths[i] is the sample's mel length; row i of the mel tensor is
\* the sample's mel on its first mel_lengths[i] frames and zero from there
\* up to Ty_max.
C4_MelRowsPadded ==
    Collated =>
        \A i \in 1..B :
            /\ out.y_lengths[i] = MelLen(i)
            /\ Len(out.y[i]) = Len(batch[i].y)
            /\ \A f \in 1..Len(out.y[i]) :
                   /\ Len(out.y[i][f]) = Ty_max
                   /\ \A t \in 1..MelLen(i) : out.y[i][f][t] = batch[i].y[f][t]
                   /\ \A t \in (MelLen(i) + 1)..Ty_max : out.y[i][f][t] = 0

C4_Witness ==
    /\ Collated
    /\ B >= 2
    /\ \E i \in 1..B : MelLen(i) < Ty_max /\ \E t \in 1..MelLen(i) : batch[i].y[1][t] # 0
    /\ \E i \in 1..B : MelLen(i) = Ty_max

\* C5: a waveform longer than Tw_max gives a row holding its first Tw_max
\* samples; any other gives a row holding it whole, then zeros; the recorded
\* length is min(original length, Tw_max).
C5_WavRowsCurtailed ==
    Collated =>
        \A i \in 1..B :
            LET w == batch[i].wav
                row == out.wav[i]
            IN  /\ Len(row) = Tw_max
                /\ out.wav_lengths[i] = Min(Len(w), Tw_max)
                /\ \A k \in 1..Min(Len(w), Tw_max) : row[k] = w[k]
                /\ \A k \in (Len(w) + 1)..Tw_max : row[k] = 0

C5_Witness ==
    /\ Collated
    /\ \E i \in 1..B : Len(batch[i].wav) > Tw_max /\ out.wav_lengths[i] = Tw_max
    /\ \E i \in 1..B : Len(batch[i].wav) < Tw_max

\* C6: Ty_max is the smallest multiple of the compatibility factor that is at
\* least the largest mel length of the batch: that length itself when it is
\* a multiple.
C6_SmallestCompatibleLength ==
    Collated =>
        /\ Ty_max % CompatFactor = 0
        /\ Ty_max >= MaxMel
        /\ \A n \in MaxMel..(Ty_max - 1) : n % CompatFactor # 0
        /\ MaxMel % CompatFactor = 0 => Ty_max = MaxMel

C6_Witness ==
    /\ Collated
    /\ MaxMel % CompatFactor # 0
    /\ Ty_max = 2 * CompatFactor

=============================================================================
